---- MODULE Spec2Model ----
(***************************************************************************)
(* VisionSense.ai: the /extract request handler (src/app.py), the CLI      *)
(* entry point (src/video_features/cli.py) and the frame-sampling          *)
(* pipeline VideoFeatureExtractor.extract_features                         *)
(* (src/video_features/extractor.py).                                      *)
(*                                                                         *)
(* One behaviour is one invocation: either one /extract request (upload    *)
(* streamed to a temp file, extractor built, extract_features run, temp    *)
(* file unlinked, response sent) or one CLI run.  The decoder, the OCR     *)
(* backend and the detector are external capabilities: what they return    *)
(* for a frame is drawn from a small set at the step that calls them, and  *)
(* each call may raise.                                                    *)
(***************************************************************************)
EXTENDS Integers, Sequences, FiniteSets, TLC

\* ---------------------------------------------------------------- bounds
MaxFrames == 3        \* longest stream the decoder yields
MaxStride == 3        \* largest frame_stride drawn from the environment
MaxSubStride == 2     \* largest text_sample_stride / yolo_frame_stride
MaxBytes == 3         \* max_upload_bytes
MaxChunk == 2         \* upload_chunk_bytes
NumRequests == 2      \* /extract requests in flight at once

\* ------------------------------------------------------ program constants
text_min_chars == 8
resize_width == 640
shot_threshold == 45  \* 0.45, in hundredths

\* Python's None for the locals prev_hist / prev_gray / frame_small_bgr.
None == -1

NoError == "None"

\* ------------------------------------------------------------- capabilities
\* A frame's histogram and its grayscale image are identified by the
\* absolute index of the frame they were computed from.
\* Bhattacharyya distances cv2.compareHist can return for a pair of
\* histograms, in hundredths: below, at and above the default threshold.
Distances == {0, 45, 90}
\* Mean optical-flow magnitudes np.mean(mag) can return for a pair of frames.
Magnitudes == {0, 1}
\* Lengths of the stripped OCR text.
TextLens == {7, 8}
\* Class ids the detector can emit, and the detector's names table
\* (class 2 has no entry).
PersonCls == 0
CarCls == 1
UnknownCls == 2
\* Detector results: boxes is None, boxes.cls is None, or a list of class ids.
DetResults ==
    { [boxes |-> FALSE, cls |-> FALSE, ids |-> <<>>],
      [boxes |-> TRUE,  cls |-> FALSE, ids |-> <<>>],
      [boxes |-> TRUE,  cls |-> TRUE,  ids |-> <<>>],
      [boxes |-> TRUE,  cls |-> TRUE,  ids |-> <<PersonCls>>],
      [boxes |-> TRUE,  cls |-> TRUE,  ids |-> <<PersonCls, UnknownCls>>],
      [boxes |-> TRUE,  cls |-> TRUE,  ids |-> <<CarCls>>] }
\* Widths of the decoded frames, and the frame rates the container reports
\* (0 = unknown).
FrameWidths == {resize_width, 2 * resize_width}
FpsValues == {0, 25}

VARIABLES
    \* ---- src/app.py, src/video_features/cli.py
    caller,         \* "http" (POST /extract) or "cli" (main)
    rpc,            \* position of the request handler / of main
    app_cfg,        \* AppSettings
    quota,          \* _Quota of the running upload: start, written
    total,          \* _stream_upload_to_tempfile.total
    chunk,          \* length of the chunk last read from the upload
    tmp,            \* the NamedTemporaryFile: created, exists, open, size
    temp_path,      \* extract.temp_path: "" until the upload was streamed
    disk_free,      \* shutil.disk_usage(root).free
    response,       \* the HTTP response / the CLI outcome
    uploads,        \* concurrent /extract requests: one record per request
    dir_other,      \* bytes other files hold in temp_volume_dir
    environ,        \* os.environ: the stride variables
    args,           \* the parsed CLI overrides (None = not given)
    ext_env,        \* ExtractorSettings.load()
    film,           \* a fixed video with deterministic backends, if any
    run,            \* which invocation of extract_features on this object
    first_report,   \* what the first invocation returned
    \* ---- src/video_features/extractor.py
    config,         \* FeatureExtractionConfig
    video_exists,   \* video_file.exists()
    pc,             \* position inside extract_features
    cap,            \* the cv2.VideoCapture: "none","open","unopened","released"
    frame_small_w,  \* width of frame_small_bgr
    fps,
    total_frames,
    absolute_frame_index,
    processed_frames,
    hard_cuts,
    text_samples,
    text_positives,
    motion_samples,
    motion_magnitude_sum,
    person_total,
    object_total,
    prev_hist,
    prev_gray,
    error,          \* the exception in flight / raised by extract_features
    report,         \* the dict returned by extract_features
    accepted,       \* history: absolute indices of the accepted frames
    detections      \* history: detections the detector has returned

auxVars == <<uploads, dir_other, environ, args, ext_env, film, run,
            first_report>>
reqVars == <<caller, rpc, app_cfg, quota, total, chunk, tmp, temp_path,
            disk_free, response, auxVars>>
loopVars == <<absolute_frame_index, processed_frames, hard_cuts, text_samples,
              text_positives, motion_samples, motion_magnitude_sum,
              person_total, object_total, prev_hist, prev_gray,
              frame_small_w, accepted, detections>>
capVars == <<cap, fps, total_frames>>
coreVars == <<config, video_exists, pc, capVars, loopVars, error, report>>
vars == <<reqVars, coreVars>>

\* ------------------------------------------------------------ pure helpers
\* A Python float quotient n / d, kept exact as a fraction.  den = 0 marks
\* the ZeroDivisionError that n / 0 raises; present = FALSE is None.
Div(n, d) == [present |-> TRUE, num |-> n, den |-> d]
Zero == [present |-> TRUE, num |-> 0, den |-> 1]
Absent == [present |-> FALSE, num |-> 0, den |-> 1]
ZeroDivision(q) == q.den = 0

\* extractor.py:81  (absolute_frame_index % frame_stride) != 0 -> continue
IsAcceptedOneBased(i, stride) == ((i + 1) % stride) = 0
IsAccepted(i, stride) == (i % stride) = 0

\* extractor.py:130-136
_resize_to_width_kept(w, target_w) == w
_resize_to_width(w, target_w) == IF w <= target_w THEN w ELSE target_w

\* extractor.py:138-148 and extractor.py:94: the signature / the grayscale
\* image of accepted frame i
_hsv_histogram(i) == i
GrayOf(i) == i

\* extractor.py:88  if prev_hist is not None
HasPrevHistAlways(h) == TRUE
HasPrevHist(h) == h # None
\* extractor.py:95  if prev_gray is not None
HasPrevGrayAlways(g) == TRUE
HasPrevGray(g) == g # None

\* extractor.py:90
IsHardCutInclusive(color_distance, threshold) == color_distance >= threshold
IsHardCut(color_distance, threshold) == color_distance > threshold

\* extractor.py:183-184, on the length of the stripped text
_contains_text(text_len, min_chars) == text_len >= min_chars

\* extractor.py:101 / 106: the sub-strides run on the accepted-frame count
FiresZeroBased(processed, stride) == ((processed - 1) % stride) = 0
Fires(processed, stride) == (processed % stride) = 0

\* extractor.py:188,196: names.get(int(cls_id), "")
Label(cls_id) ==
    IF cls_id = PersonCls THEN "person"
    ELSE IF cls_id = CarCls THEN "car"
    ELSE ""

RECURSIVE CountLabels(_, _)
\* extractor.py:195-200: <<people, others>> over the class ids
CountLabels(ids, acc) ==
    IF ids = <<>> THEN acc
    ELSE CountLabels(Tail(ids),
                     IF Label(Head(ids)) = "person"
                     THEN <<acc[1] + 1, acc[2]>>
                     ELSE <<acc[1], acc[2] + 1>>)

\* extractor.py:186-201
_count_people_vs_objects_named(result) ==
    IF ~(result.boxes /\ result.cls) THEN <<0, 0>>
    ELSE <<Cardinality({k \in DOMAIN result.ids :
                          Label(result.ids[k]) = "person"}),
           Cardinality({k \in DOMAIN result.ids :
                          Label(result.ids[k]) \notin {"person", ""}})>>
_count_people_vs_objects(result) ==
    IF ~result.boxes THEN <<0, 0>>
    ELSE IF ~result.cls THEN <<0, 0>>
    ELSE CountLabels(result.ids, <<0, 0>>)

\* extractor.py:59
Duration(frames, rate) == IF rate > 0 THEN Div(frames, rate) ELSE Absent
\* extractor.py:113
AvgMotion(sum, samples) == IF samples # 0 THEN Div(sum, samples) ELSE Zero
\* extractor.py:114
TextRatioSwapped(positives, samples) ==
    IF samples # 0 THEN Div(samples, positives) ELSE Zero
TextRatio(positives, samples) ==
    IF samples # 0 THEN Div(positives, samples) ELSE Zero
\* extractor.py:115
PersonObjectRatioOnPersons(persons, objects) ==
    IF persons # 0 THEN Div(persons, objects) ELSE Absent
PersonObjectRatio(persons, objects) ==
    IF objects # 0 THEN Div(persons, objects) ELSE Absent

NoReport == [present |-> FALSE]
\* extractor.py:117-128
BuildReport ==
    [present |-> TRUE,
     duration_seconds |-> Duration(total_frames, fps),
     frames_total |-> total_frames,
     frames_processed |-> processed_frames,
     hard_cuts |-> hard_cuts,
     avg_motion_magnitude |-> AvgMotion(motion_magnitude_sum, motion_samples),
     text_present_ratio |-> TextRatio(text_positives, text_samples),
     people_detections |-> person_total,
     object_detections |-> object_total,
     person_to_object_ratio |-> PersonObjectRatio(person_total, object_total)]

\* settings.py:83-102 / cli.py:46-57: the resolved FeatureExtractionConfig
Configs ==
    [frame_stride : 1..MaxStride,
     resize_width : {resize_width},
     shot_threshold : {shot_threshold},
     text_sample_stride : 1..MaxSubStride,
     text_min_chars : {text_min_chars},
     yolo_frame_stride : 1..MaxSubStride]
NoConfig == [frame_stride |-> 0]

\* settings.py:49-61
AppSettingsValues ==
    [max_upload_bytes : {MaxBytes},
     upload_chunk_bytes : {MaxChunk},
     volume_quota_bytes : {4},
     volume_min_free_bytes : {1}]

NoQuota == [start |-> 0, written |-> 0, live |-> FALSE]
NoTmp == [created |-> FALSE, exists |-> FALSE, open |-> FALSE, size |-> 0]
NoResponse == [sent |-> FALSE, status |-> 0, detail |-> "", body |-> NoReport]

\* The requests of the concurrent specification and the state of one of
\* them: its position, its _Quota, its temp file, its response status.
Reqs == 1..NumRequests
IdleUpload ==
    [pos |-> "new", start |-> 0, written |-> 0, exists |-> FALSE,
     size |-> 0, status |-> 0]
NoUploads == [r \in Reqs |-> IdleUpload]
\* No video is fixed: every backend call draws its result freely.
NoFilm == [fixed |-> FALSE, frames |-> <<>>, fps |-> 0, hint |-> 0]
StrideNames == {"FRAME_STRIDE", "TEXT_SAMPLE_STRIDE", "YOLO_FRAME_STRIDE"}
NoEnviron == [v \in StrideNames |-> ""]
NoArgs ==
    [frame_stride |-> None, text_sample_stride |-> None,
     yolo_frame_stride |-> None]
NoSettings == [loaded |-> FALSE]
\* The variables of the other specifications at rest.
AuxIdle ==
    /\ uploads = NoUploads
    /\ dir_other = 0
    /\ environ = NoEnviron
    /\ args = NoArgs
    /\ ext_env = NoSettings
    /\ film = NoFilm
    /\ run = 1
    /\ first_report = NoReport

\* ------------------------------------------- settings.py, cli.py: the config
\* The values an environment variable can hold: unset or empty, not a
\* number, and the decimal text of an integer.
EnvStrings == {"", "abc", "0", "2", "-1"}
\* str(n) and int(s) on the integers the model meets (the defaults of
\* settings.py:86,89,92 among them)
IntTexts ==
    { <<"0", 0>>, <<"2", 2>>, <<"-1", -1>>, <<"5", 5>>, <<"10", 10>>,
      <<"15", 15>> }
Str(n) == (CHOOSE p \in IntTexts : p[2] = n)[1]
IsIntText(t) == \E p \in IntTexts : p[1] = t
IntOf(t) == (CHOOSE p \in IntTexts : p[1] = t)[2]
\* what --frame-stride etc. can be given as (argparse type=int)
ArgValues == {None, 0, 3}

\* settings.py:9-11
_get(name, default) == IF environ[name] # "" THEN environ[name] ELSE default
\* settings.py:14-18
_get_int(name, default) ==
    LET t == _get(name, Str(default)) IN
      IF IsIntText(t) THEN IntOf(t) ELSE default
\* settings.py:83-102, the three strides
ExtractorSettingsLoad ==
    [loaded |-> TRUE,
     frame_stride |-> _get_int("FRAME_STRIDE", 5),
     text_sample_stride |-> _get_int("TEXT_SAMPLE_STRIDE", 10),
     yolo_frame_stride |-> _get_int("YOLO_FRAME_STRIDE", 15)]
\* app.py:95-116 and cli.py:9-29
_build_feature_config(e) ==
    [frame_stride |-> e.frame_stride,
     resize_width |-> resize_width,
     shot_threshold |-> shot_threshold,
     text_sample_stride |-> e.text_sample_stride,
     text_min_chars |-> text_min_chars,
     yolo_frame_stride |-> e.yolo_frame_stride]
\* cli.py:46-57
_merge(base, a) ==
    [base EXCEPT
       !.frame_stride =
           IF a.frame_stride # None THEN a.frame_stride ELSE @,
       !.text_sample_stride =
           IF a.text_sample_stride # None THEN a.text_sample_stride ELSE @,
       !.yolo_frame_stride =
           IF a.yolo_frame_stride # None THEN a.yolo_frame_stride ELSE @]
\* app.py:136: the config the request handler builds.  When the environment
\* is not modelled (ext_env not loaded) it is any config with valid strides.
BuiltConfigs ==
    IF ext_env.loaded THEN {_build_feature_config(ext_env)} ELSE Configs
\* cli.py:62: the config main builds
MergedConfigs ==
    IF ext_env.loaded
    THEN {_merge(_build_feature_config(ext_env), args)}
    ELSE Configs

\* ------------------------------------------------- the backends of a film
\* When film.fixed, the video is a fixed sequence of frames, each of one of
\* a few kinds, and every backend is a function of the frames it is given;
\* otherwise each call draws its result freely.
FrameKinds == 0..2
KindDistance(a, b) == 45 * (IF a >= b THEN a - b ELSE b - a)
KindMagnitude(a, b) == IF a = b THEN 0 ELSE 1
KindTextLen(k) == IF k = 0 THEN 7 ELSE 8
KindDetections(k) ==
    IF k = 0 THEN [boxes |-> FALSE, cls |-> FALSE, ids |-> <<>>]
    ELSE IF k = 1 THEN [boxes |-> TRUE, cls |-> TRUE, ids |-> <<CarCls>>]
    ELSE [boxes |-> TRUE, cls |-> TRUE, ids |-> <<PersonCls, UnknownCls>>]
KindOf(i) == film.frames[i + 1]

\* extractor.py:57: cap.get(CAP_PROP_FPS)
ReportedFps == IF film.fixed THEN {film.fps} ELSE FpsValues
\* extractor.py:58: cap.get(CAP_PROP_FRAME_COUNT), a hint
ReportedFrameCounts == IF film.fixed THEN {film.hint} ELSE 0..MaxFrames
\* extractor.py:76: cap.read() has a frame with absolute index i / has none
DecoderHasFrame(i) ==
    IF film.fixed THEN i < Len(film.frames) ELSE i < MaxFrames
DecoderAtEnd(i) == IF film.fixed THEN i >= Len(film.frames) ELSE TRUE
\* extractor.py:89, 151-152: what cv2.compareHist may return
CompareHist(h1, h2) ==
    IF film.fixed THEN {KindDistance(KindOf(h1), KindOf(h2))} ELSE Distances
\* extractor.py:96, 154-169: what the mean flow magnitude may be
FlowMagnitudes(g1, g2) ==
    IF film.fixed THEN {KindMagnitude(KindOf(g1), KindOf(g2))} ELSE Magnitudes
\* extractor.py:103, 182-183: the length of the text OCR finds in frame i
OcrTextLens(i) == IF film.fixed THEN {KindTextLen(KindOf(i))} ELSE TextLens
\* extractor.py:107, 187: what the detector returns for frame i
DetectorResults(i) ==
    IF film.fixed THEN {KindDetections(KindOf(i))} ELSE DetResults

\* extractor.py:80  absolute_frame_index += 1
NextIndexSkipping(i) == i + 2
NextIndex(i) == i + 1
\* extractor.py:108-109  total += count
AccumulateOverwriting(sum, n) == n
Accumulate(sum, n) == sum + n
\* extractor.py:192-195: the number of class ids in a detector result
NumDetections(result) ==
    IF result.boxes /\ result.cls THEN Len(result.ids) ELSE 0

\* --------------------------------------------------------------- initial
Init ==
    /\ caller \in {"http", "cli"}
    /\ rpc = IF caller = "http" THEN "validate" ELSE "main"
    /\ app_cfg \in AppSettingsValues
    /\ quota = NoQuota
    /\ total = 0
    /\ chunk = 0
    /\ tmp = NoTmp
    /\ temp_path = ""
    /\ disk_free \in {2, 8}
    /\ response = NoResponse
    /\ config = NoConfig
    /\ video_exists = FALSE
    /\ pc = "idle"
    /\ cap = "none"
    /\ frame_small_w = None
    /\ fps = 0
    /\ total_frames = 0
    /\ absolute_frame_index = -1
    /\ processed_frames = 0
    /\ hard_cuts = 0
    /\ text_samples = 0
    /\ text_positives = 0
    /\ motion_samples = 0
    /\ motion_magnitude_sum = 0
    /\ person_total = 0
    /\ object_total = 0
    /\ prev_hist = None
    /\ prev_gray = None
    /\ error = NoError
    /\ report = NoReport
    /\ accepted = {}
    /\ detections = 0
    /\ AuxIdle

\* ------------------------------------------- extract_features (extractor.py)
\* extractor.py:49-51
CheckExists ==
    /\ pc = "call"
    /\ IF video_exists
       THEN pc' = "open" /\ error' = error
       ELSE pc' = "raised" /\ error' = "FileNotFoundError"
    /\ UNCHANGED <<reqVars, config, video_exists, capVars, loopVars, report>>

\* extractor.py:53-54, isOpened() true
OpenCapture ==
    /\ pc = "open"
    /\ cap' = "open"
    /\ pc' = "props"
    /\ UNCHANGED <<reqVars, config, video_exists, fps, total_frames, loopVars,
                   error, report>>

\* extractor.py:53-55, isOpened() false: ValueError leaves the function
OpenCaptureFails ==
    /\ pc = "open"
    /\ cap' = "unopened"
    /\ error' = "ValueError"
    /\ pc' = "raised"
    /\ UNCHANGED <<reqVars, config, video_exists, fps, total_frames,
                   loopVars, report>>

\* extractor.py:57-72
ReadPropsKeepingCounters ==
    /\ pc = "props"
    /\ fps' \in ReportedFps
    /\ total_frames' \in ReportedFrameCounts
    /\ absolute_frame_index' = -1
    /\ processed_frames' = processed_frames
    /\ hard_cuts' = hard_cuts
    /\ text_samples' = text_samples
    /\ text_positives' = text_positives
    /\ motion_samples' = motion_samples
    /\ motion_magnitude_sum' = motion_magnitude_sum
    /\ person_total' = person_total
    /\ object_total' = object_total
    /\ prev_hist' = prev_hist
    /\ prev_gray' = prev_gray
    /\ accepted' = {}
    /\ detections' = detections
    /\ pc' = "read"
    /\ UNCHANGED <<reqVars, config, video_exists, cap, frame_small_w,
                   error, report>>
ReadProps ==
    /\ pc = "props"
    /\ fps' \in ReportedFps
    /\ total_frames' \in ReportedFrameCounts
    /\ absolute_frame_index' = -1
    /\ processed_frames' = 0
    /\ hard_cuts' = 0
    /\ text_samples' = 0
    /\ text_positives' = 0
    /\ motion_samples' = 0
    /\ motion_magnitude_sum' = 0
    /\ person_total' = 0
    /\ object_total' = 0
    /\ prev_hist' = None
    /\ prev_gray' = None
    /\ accepted' = {}
    /\ detections' = 0
    /\ pc' = "read"
    /\ UNCHANGED <<reqVars, config, video_exists, cap, frame_small_w,
                   error, report>>

\* extractor.py:76-85, cap.read() yields a frame
ReadFrame ==
    /\ pc = "read"
    /\ DecoderHasFrame(NextIndex(absolute_frame_index))
    /\ absolute_frame_index' = NextIndex(absolute_frame_index)
    /\ IF IsAccepted(absolute_frame_index', config.frame_stride)
       THEN /\ processed_frames' = processed_frames + 1
            /\ \E w \in FrameWidths :
                 frame_small_w' = _resize_to_width(w, config.resize_width)
            /\ accepted' = accepted \cup {absolute_frame_index'}
            /\ pc' = "hist"
       ELSE /\ UNCHANGED <<processed_frames, frame_small_w, accepted>>
            /\ pc' = "read"
    /\ UNCHANGED <<reqVars, config, video_exists, capVars, detections, hard_cuts,
                   text_samples, text_positives, motion_samples,
                   motion_magnitude_sum, person_total, object_total, prev_hist,
                   prev_gray, error, report>>

\* extractor.py:76-78, cap.read() reports end of stream
ReadEnd ==
    /\ pc = "read"
    /\ DecoderAtEnd(NextIndex(absolute_frame_index))
    /\ pc' = "finally"
    /\ UNCHANGED <<reqVars, config, video_exists, capVars, loopVars, error,
                   report>>

\* An exception raised inside the try block (extractor.py:74-109) by the
\* call at position pc: control leaves the loop for the finally clause.
RaiseSwallowed(exc) ==
    /\ error' = exc
    /\ pc' = "read"
    /\ UNCHANGED <<reqVars, config, video_exists, capVars, loopVars, report>>
Raise(exc) ==
    /\ error' = exc
    /\ pc' = "finally"
    /\ UNCHANGED <<reqVars, config, video_exists, capVars, loopVars, report>>

\* extractor.py:76, the decoder raises
ReadFault == pc = "read" /\ Raise("DecodeError")

\* extractor.py:87-92
ShotStep ==
    /\ pc = "hist"
    /\ LET curr_hist == _hsv_histogram(absolute_frame_index) IN
         /\ IF HasPrevHist(prev_hist)
            THEN \E color_distance \in CompareHist(prev_hist, curr_hist) :
                   hard_cuts' =
                       IF IsHardCut(color_distance, config.shot_threshold)
                       THEN hard_cuts + 1
                       ELSE hard_cuts
            ELSE hard_cuts' = hard_cuts
         /\ prev_hist' = curr_hist
    /\ pc' = "flow"
    /\ UNCHANGED <<reqVars, config, video_exists, capVars, detections,
                   absolute_frame_index, processed_frames, text_samples,
                   text_positives, motion_samples, motion_magnitude_sum,
                   person_total, object_total, prev_gray, frame_small_w,
                   accepted, error, report>>

\* extractor.py:87-89, the histogram or the comparison raises
ShotFault == pc = "hist" /\ Raise("HistogramError")

\* extractor.py:94-99
MotionStep ==
    /\ pc = "flow"
    /\ LET curr_gray == GrayOf(absolute_frame_index) IN
         /\ IF HasPrevGray(prev_gray)
            THEN /\ \E avg_mag \in FlowMagnitudes(prev_gray, curr_gray) :
                      motion_magnitude_sum' = motion_magnitude_sum + avg_mag
                 /\ motion_samples' = motion_samples + 1
            ELSE UNCHANGED <<motion_magnitude_sum, motion_samples>>
         /\ prev_gray' = curr_gray
    /\ pc' = "text"
    /\ UNCHANGED <<reqVars, config, video_exists, capVars, detections,
                   absolute_frame_index, processed_frames, hard_cuts,
                   text_samples, text_positives, person_total, object_total,
                   prev_hist, frame_small_w, accepted, error, report>>

\* extractor.py:94-96, the colour conversion or the optical flow raises
MotionFault == pc = "flow" /\ Raise("OpticalFlowError")

\* extractor.py:101-104
TextStep ==
    /\ pc = "text"
    /\ IF Fires(processed_frames, config.text_sample_stride)
       THEN /\ text_samples' = text_samples + 1
            /\ \E text_len \in OcrTextLens(absolute_frame_index) :
                 text_positives' =
                     IF _contains_text(text_len, config.text_min_chars)
                     THEN text_positives + 1
                     ELSE text_positives
       ELSE UNCHANGED <<text_samples, text_positives>>
    /\ pc' = "detect"
    /\ UNCHANGED <<reqVars, config, video_exists, capVars, detections,
                   absolute_frame_index, processed_frames, hard_cuts,
                   motion_samples, motion_magnitude_sum, person_total,
                   object_total, prev_hist, prev_gray, frame_small_w,
                   accepted, error, report>>

\* extractor.py:102-103, the OCR backend raises after the sample was counted
TextFault ==
    /\ pc = "text"
    /\ Fires(processed_frames, config.text_sample_stride)
    /\ text_samples' = text_samples + 1
    /\ error' = "OcrError"
    /\ pc' = "finally"
    /\ UNCHANGED <<reqVars, config, video_exists, capVars, detections,
                   absolute_frame_index, processed_frames, hard_cuts,
                   text_positives, motion_samples, motion_magnitude_sum,
                   person_total, object_total, prev_hist, prev_gray,
                   frame_small_w, accepted, report>>

\* extractor.py:106-109
DetectStep ==
    /\ pc = "detect"
    /\ IF Fires(processed_frames, config.yolo_frame_stride)
       THEN \E result \in DetectorResults(absolute_frame_index) :
              LET counts == _count_people_vs_objects(result) IN
                /\ person_total' = Accumulate(person_total, counts[1])
                /\ object_total' = Accumulate(object_total, counts[2])
                /\ detections' = detections + NumDetections(result)
       ELSE UNCHANGED <<person_total, object_total, detections>>
    /\ pc' = "read"
    /\ UNCHANGED <<reqVars, config, video_exists, capVars,
                   absolute_frame_index, processed_frames, hard_cuts,
                   text_samples, text_positives, motion_samples,
                   motion_magnitude_sum, prev_hist, prev_gray, frame_small_w,
                   accepted, error, report>>

\* extractor.py:107, the detector raises
DetectFault ==
    /\ pc = "detect"
    /\ Fires(processed_frames, config.yolo_frame_stride)
    /\ Raise("DetectionError")

\* extractor.py:110-111
Release ==
    /\ pc = "finally"
    /\ cap' = "released"
    /\ pc' = IF error = NoError THEN "aggregate" ELSE "raised"
    /\ UNCHANGED <<reqVars, config, video_exists, fps, total_frames,
                   loopVars, error, report>>

\* extractor.py:113-128
Aggregate ==
    /\ pc = "aggregate"
    /\ LET r == BuildReport IN
         IF \/ ZeroDivision(r.avg_motion_magnitude)
            \/ ZeroDivision(r.text_present_ratio)
            \/ ZeroDivision(r.person_to_object_ratio)
         THEN /\ error' = "ZeroDivisionError"
              /\ pc' = "raised"
              /\ report' = report
         ELSE /\ report' = r
              /\ pc' = "returned"
              /\ error' = error
    /\ UNCHANGED <<reqVars, config, video_exists, capVars, loopVars>>

\* ----------------------------------------------------- POST /extract (app.py)
Respond(code, text, content) ==
    [sent |-> TRUE, status |-> code, detail |-> text, body |-> content]

\* app.py:54-62: the status quota.check(n) raises, 0 when it passes
QuotaCheckAfterWrite(q, n, free) ==
    IF q.written > app_cfg.max_upload_bytes THEN 413
    ELSE IF q.start + q.written + n > app_cfg.volume_quota_bytes THEN 429
    ELSE IF free - n < app_cfg.volume_min_free_bytes THEN 507
    ELSE 0
QuotaCheck(q, n, free) ==
    IF q.written + n > app_cfg.max_upload_bytes THEN 413
    ELSE IF q.start + q.written + n > app_cfg.volume_quota_bytes THEN 429
    ELSE IF free - n < app_cfg.volume_min_free_bytes THEN 507
    ELSE 0

\* app.py:56,59,62
QuotaDetail(code) ==
    IF code = 413 THEN "Upload exceeds limit."
    ELSE IF code = 429 THEN "Temporary storage quota exceeded."
    ELSE "Insufficient free space on processing volume."

\* app.py:138-141: the except clauses of extract
ExceptResponse(exc) ==
    IF exc = "FileNotFoundError"
    THEN Respond(400, "Failed to read uploaded video file.", NoReport)
    ELSE Respond(500, "Video processing failed.", NoReport)

\* app.py:142-146: os.unlink(temp_path)
UnlinkTempSkipped(t) == t
UnlinkTemp(t) == [t EXCEPT !.exists = FALSE]

\* app.py:27-34, extension or content type refused
RejectUpload ==
    /\ caller = "http" /\ rpc = "validate"
    /\ response' = Respond(400, "Unsupported file.", NoReport)
    /\ rpc' = "done"
    /\ UNCHANGED <<auxVars, caller, app_cfg, quota, total, chunk, tmp, temp_path,
                   disk_free,
                   coreVars>>

\* app.py:27-34 pass, then app.py:69-72: the quota snapshot and the temp file
StreamOpen ==
    /\ caller = "http" /\ rpc = "validate"
    /\ \E start \in {0, 2} :
         quota' = [start |-> start, written |-> 0, live |-> TRUE]
    /\ tmp' = [created |-> TRUE, exists |-> TRUE, open |-> TRUE, size |-> 0]
    /\ total' = 0
    /\ chunk' = 0
    /\ rpc' = "stream"
    /\ UNCHANGED <<auxVars, caller, app_cfg, temp_path, disk_free, response, coreVars>>

\* app.py:74-80 with the finally clause app.py:84-92: one non-empty chunk
StreamChunk ==
    /\ caller = "http" /\ rpc = "stream"
    /\ \E n \in 1..app_cfg.upload_chunk_bytes :
         /\ chunk' = n
         /\ LET code == QuotaCheck(quota, n, disk_free) IN
              IF code # 0
              THEN /\ response' = Respond(code, QuotaDetail(code), NoReport)
                   /\ tmp' = [tmp EXCEPT !.open = FALSE]
                   /\ rpc' = "done"
                   /\ UNCHANGED <<quota, total, disk_free>>
              ELSE /\ tmp' = [tmp EXCEPT !.size = tmp.size + n]
                   /\ disk_free' = disk_free - n
                   /\ total' = total + n
                   /\ quota' = [quota EXCEPT !.written = quota.written + n]
                   /\ UNCHANGED <<rpc, response>>
    /\ UNCHANGED <<auxVars, caller, app_cfg, temp_path, coreVars>>

\* app.py:74-76, 81-92: the empty chunk ends the upload; the locals of
\* _stream_upload_to_tempfile end with the call
StreamEnd ==
    /\ caller = "http" /\ rpc = "stream"
    /\ chunk' = 0
    /\ tmp' = [tmp EXCEPT !.open = FALSE]
    /\ IF total = 0
       THEN /\ response' = Respond(400, "Empty upload.", NoReport)
            /\ rpc' = "done"
       ELSE /\ response' = response
            /\ rpc' = "construct"
    /\ temp_path' = IF total = 0 THEN temp_path ELSE "vs_tmp"
    /\ quota' = NoQuota
    /\ total' = 0
    /\ UNCHANGED <<auxVars, caller, app_cfg, disk_free, coreVars>>

\* app.py:74 raises; app.py:84-92 close the file and the error leaves extract
StreamReadError ==
    /\ caller = "http" /\ rpc = "stream"
    /\ tmp' = [tmp EXCEPT !.open = FALSE]
    /\ response' = Respond(500, "Internal Server Error", NoReport)
    /\ rpc' = "done"
    /\ UNCHANGED <<auxVars, caller, app_cfg, quota, total, chunk, temp_path, disk_free,
                   coreVars>>

\* app.py:136-137: the extractor is built and extract_features is entered
Construct ==
    /\ caller = "http" /\ rpc = "construct"
    /\ config' \in BuiltConfigs
    /\ video_exists' = tmp.exists
    /\ pc' = "call"
    /\ rpc' = "core"
    /\ UNCHANGED <<auxVars, caller, app_cfg, quota, total, chunk, tmp, temp_path,
                   disk_free,
                   response, capVars, loopVars, error, report>>

\* app.py:136 raises (extractor.py:46, the model cannot be loaded), then
\* app.py:140-146
ConstructFails ==
    /\ caller = "http" /\ rpc = "construct"
    /\ error' = "ModelLoadError"
    /\ response' = ExceptResponse(error')
    /\ tmp' = UnlinkTemp(tmp)
    /\ disk_free' = disk_free + tmp.size
    /\ rpc' = "done"
    /\ UNCHANGED <<auxVars, caller, app_cfg, quota, total, chunk, temp_path, config,
                   video_exists,
                   pc, capVars, loopVars, report>>

\* app.py:137-147: extract_features has returned or raised
Finish ==
    /\ caller = "http" /\ rpc = "core"
    /\ pc \in {"returned", "raised"}
    /\ response' = IF pc = "returned"
                   THEN Respond(200, "", report)
                   ELSE ExceptResponse(error)
    /\ tmp' = UnlinkTemp(tmp)
    /\ disk_free' = disk_free + tmp.size
    /\ rpc' = "done"
    /\ UNCHANGED <<auxVars, caller, app_cfg, quota, total, chunk, temp_path, coreVars>>

\* ------------------------------------------------------------- main (cli.py)
\* cli.py:60-64: the merged config, the extractor, the call
CliMain ==
    /\ caller = "cli" /\ rpc = "main"
    /\ config' \in MergedConfigs
    /\ video_exists' \in BOOLEAN
    /\ pc' = "call"
    /\ rpc' = "core"
    /\ UNCHANGED <<auxVars, caller, app_cfg, quota, total, chunk, tmp, temp_path,
                   disk_free,
                   response, capVars, loopVars, error, report>>

\* cli.py:64-67: the report is printed, or the exception ends the process
CliFinish ==
    /\ caller = "cli" /\ rpc = "core"
    /\ pc \in {"returned", "raised"}
    /\ response' = IF pc = "returned"
                   THEN Respond(0, "", report)
                   ELSE Respond(1, "Traceback", NoReport)
    /\ rpc' = "done"
    /\ UNCHANGED <<auxVars, caller, app_cfg, quota, total, chunk, tmp, temp_path,
                   disk_free,
                   coreVars>>

\* ------------------------------------------------------------ specification
Next ==
    \/ RejectUpload
    \/ StreamOpen
    \/ StreamChunk
    \/ StreamEnd
    \/ StreamReadError
    \/ Construct
    \/ ConstructFails
    \/ Finish
    \/ CliMain
    \/ CliFinish
    \/ CheckExists
    \/ OpenCapture
    \/ OpenCaptureFails
    \/ ReadProps
    \/ ReadFrame
    \/ ReadEnd
    \/ ReadFault
    \/ ShotStep
    \/ ShotFault
    \/ MotionStep
    \/ MotionFault
    \/ TextStep
    \/ TextFault
    \/ DetectStep
    \/ DetectFault
    \/ Release
    \/ Aggregate

Spec == Init /\ [][Next]_vars

\* ------------------------------------------- concurrent /extract requests
\* extract is a coroutine: it yields to the event loop at every await
\* (app.py:74 upload.read, app.py:90 upload.close) and nowhere else, so
\* requests interleave at their chunk reads while the extractor call and the
\* unlink (app.py:136-146) run without interruption.
CoreIdle ==
    /\ config = NoConfig
    /\ video_exists = FALSE
    /\ pc = "idle"
    /\ cap = "none"
    /\ frame_small_w = None
    /\ fps = 0
    /\ total_frames = 0
    /\ absolute_frame_index = -1
    /\ processed_frames = 0
    /\ hard_cuts = 0
    /\ text_samples = 0
    /\ text_positives = 0
    /\ motion_samples = 0
    /\ motion_magnitude_sum = 0
    /\ person_total = 0
    /\ object_total = 0
    /\ prev_hist = None
    /\ prev_gray = None
    /\ error = NoError
    /\ report = NoReport
    /\ accepted = {}
    /\ detections = 0
RequestIdle ==
    /\ quota = NoQuota
    /\ total = 0
    /\ chunk = 0
    /\ tmp = NoTmp
    /\ temp_path = ""
    /\ response = NoResponse

RECURSIVE HeldBytes(_)
\* the bytes the temp files of the requests in rs hold
HeldBytes(rs) ==
    IF rs = {} THEN 0
    ELSE LET r == CHOOSE x \in rs : TRUE IN
           (IF uploads[r].exists THEN uploads[r].size ELSE 0)
               + HeldBytes(rs \ {r})

\* app.py:37-45 on temp_volume_dir
_dir_size_bytes == dir_other + HeldBytes(Reqs)

InitConc ==
    /\ caller = "http"
    /\ rpc = "concurrent"
    /\ app_cfg \in AppSettingsValues
    /\ disk_free = 8
    /\ RequestIdle
    /\ CoreIdle
    /\ uploads = NoUploads
    /\ dir_other \in {0, 2}
    /\ environ = NoEnviron
    /\ args = NoArgs
    /\ ext_env = NoSettings
    /\ film = NoFilm
    /\ run = 1
    /\ first_report = NoReport

concRest ==
    <<caller, rpc, app_cfg, quota, total, chunk, tmp, temp_path, response,
      dir_other, environ, args, ext_env, film, run, first_report, coreVars>>

\* app.py:133-134, 69-72: a validated upload takes its quota snapshot and
\* creates its temp file
UpOpen(r) ==
    /\ uploads[r].pos = "new"
    /\ uploads' = [uploads EXCEPT
                      ![r] = [@ EXCEPT !.pos = "stream",
                                       !.start = _dir_size_bytes,
                                       !.written = 0,
                                       !.exists = TRUE,
                                       !.size = 0]]
    /\ UNCHANGED <<disk_free, concRest>>

\* app.py:74-80, 84-92: one non-empty chunk of request r
UpChunk(r) ==
    /\ uploads[r].pos = "stream"
    /\ \E n \in 1..app_cfg.upload_chunk_bytes :
         LET code == QuotaCheck(uploads[r], n, disk_free) IN
           IF code # 0
           THEN /\ uploads' = [uploads EXCEPT
                                 ![r] = [@ EXCEPT !.pos = "done",
                                                  !.status = code]]
                /\ disk_free' = disk_free
           ELSE /\ uploads' = [uploads EXCEPT
                                 ![r] = [@ EXCEPT !.size = @ + n,
                                                  !.written = @ + n]]
                /\ disk_free' = disk_free - n
    /\ UNCHANGED concRest

\* app.py:74-76, 81-92: the empty chunk ends the upload of request r
UpEnd(r) ==
    /\ uploads[r].pos = "stream"
    /\ uploads' = [uploads EXCEPT
                      ![r] = IF uploads[r].size = 0
                             THEN [@ EXCEPT !.pos = "done", !.status = 400]
                             ELSE [@ EXCEPT !.pos = "process"]]
    /\ UNCHANGED <<disk_free, concRest>>

\* app.py:74 raises for request r
UpReadError(r) ==
    /\ uploads[r].pos = "stream"
    /\ uploads' = [uploads EXCEPT
                      ![r] = [@ EXCEPT !.pos = "done", !.status = 500]]
    /\ UNCHANGED <<disk_free, concRest>>

\* app.py:135-147: the extractor runs on the temp file of request r, the
\* file is unlinked and the response is sent, without an await in between
UpProcess(r) ==
    /\ uploads[r].pos = "process"
    /\ \E code \in {200, 400, 500} :
         uploads' = [uploads EXCEPT
                       ![r] = [@ EXCEPT !.pos = "done",
                                        !.status = code,
                                        !.exists = FALSE]]
    /\ disk_free' = disk_free + uploads[r].size
    /\ UNCHANGED concRest

NextConc ==
    \/ \E r \in Reqs : UpOpen(r)
    \/ \E r \in Reqs : UpChunk(r)
    \/ \E r \in Reqs : UpEnd(r)
    \/ \E r \in Reqs : UpReadError(r)
    \/ \E r \in Reqs : UpProcess(r)

SpecConc == InitConc /\ [][NextConc]_vars

\* --------------------------------------- two invocations on one extractor
\* A client builds one VideoFeatureExtractor and calls extract_features on
\* the same film twice (cli.py:63-64, with the call repeated).
Films ==
    { [fixed |-> TRUE, frames |-> f, fps |-> r, hint |-> Len(f)] :
        f \in UNION { [1..n -> FrameKinds] : n \in 0..MaxFrames },
        r \in FpsValues }

InitFilm ==
    /\ caller = "cli"
    /\ rpc = "main"
    /\ app_cfg \in AppSettingsValues
    /\ disk_free = 8
    /\ RequestIdle
    /\ CoreIdle
    /\ uploads = NoUploads
    /\ dir_other = 0
    /\ environ = NoEnviron
    /\ args = NoArgs
    /\ ext_env = NoSettings
    /\ film \in Films
    /\ run = 1
    /\ first_report = NoReport

\* extractor.py:48: the first call has returned and the client calls again;
\* the new call starts with no local bound (the counters are set by
\* extractor.py:61-72)
Reinvoke ==
    /\ rpc = "core" /\ pc = "returned" /\ run = 1
    /\ first_report' = report
    /\ run' = 2
    /\ pc' = "call"
    /\ cap' = "none"
    /\ frame_small_w' = None
    /\ report' = NoReport
    /\ UNCHANGED <<caller, rpc, app_cfg, quota, total, chunk, tmp, temp_path,
                   disk_free, response, uploads, dir_other, environ, args,
                   ext_env, film, config, video_exists, fps, total_frames,
                   absolute_frame_index, processed_frames, hard_cuts,
                   text_samples, text_positives, motion_samples,
                   motion_magnitude_sum, person_total, object_total,
                   prev_hist, prev_gray, accepted, detections, error>>

NextFilm ==
    \/ CliMain
    \/ CliFinish
    \/ Reinvoke
    \/ CheckExists
    \/ OpenCapture
    \/ ReadProps
    \/ ReadFrame
    \/ ReadEnd
    \/ ReadFault
    \/ ShotStep
    \/ ShotFault
    \/ MotionStep
    \/ MotionFault
    \/ TextStep
    \/ TextFault
    \/ DetectStep
    \/ DetectFault
    \/ Release
    \/ Aggregate

SpecFilm == InitFilm /\ [][NextFilm]_vars
\* extract_features runs on one thread without blocking on anything but the
\* decoder and the backends, which answer: a step that can be taken is taken.
SpecFilmFair == SpecFilm /\ WF_vars(NextFilm)

\* ------------------------------------------- the config from the environment
\* The process starts with the stride variables of the environment and the
\* CLI overrides drawn freely; settings are loaded (app.py:14, cli.py:10),
\* then the request or the CLI run proceeds up to the sampling loop.
InitConfig ==
    /\ caller \in {"http", "cli"}
    /\ rpc = "import"
    /\ app_cfg \in AppSettingsValues
    /\ disk_free = 8
    /\ RequestIdle
    /\ CoreIdle
    /\ uploads = NoUploads
    /\ dir_other = 0
    /\ environ \in [StrideNames -> EnvStrings]
    /\ args \in IF caller = "cli"
                THEN [frame_stride : ArgValues,
                      text_sample_stride : ArgValues,
                      yolo_frame_stride : ArgValues]
                ELSE {NoArgs}
    /\ ext_env = NoSettings
    /\ film = NoFilm
    /\ run = 1
    /\ first_report = NoReport

\* app.py:14 / cli.py:10: ExtractorSettings.load()
LoadSettings ==
    /\ rpc = "import"
    /\ ext_env' = ExtractorSettingsLoad
    /\ rpc' = IF caller = "http" THEN "validate" ELSE "main"
    /\ UNCHANGED <<caller, app_cfg, quota, total, chunk, tmp, temp_path,
                   disk_free, response, uploads, dir_other, environ, args,
                   film, run, first_report, coreVars>>

\* extractor.py:76-81 with frame_stride = 0: the first frame is read and
\* absolute_frame_index % 0 raises ZeroDivisionError inside the try block
ReadFrameZeroStride ==
    /\ pc = "read"
    /\ config.frame_stride = 0
    /\ DecoderHasFrame(NextIndex(absolute_frame_index))
    /\ absolute_frame_index' = NextIndex(absolute_frame_index)
    /\ error' = "ZeroDivisionError"
    /\ pc' = "finally"
    /\ UNCHANGED <<reqVars, config, video_exists, capVars, processed_frames,
                   hard_cuts, text_samples, text_positives, motion_samples,
                   motion_magnitude_sum, person_total, object_total,
                   prev_hist, prev_gray, frame_small_w, accepted, detections,
                   report>>

NextConfig ==
    \/ LoadSettings
    \/ RejectUpload
    \/ StreamOpen
    \/ StreamChunk
    \/ StreamEnd
    \/ StreamReadError
    \/ Construct
    \/ ConstructFails
    \/ Finish
    \/ CliMain
    \/ CliFinish
    \/ CheckExists
    \/ OpenCapture
    \/ OpenCaptureFails
    \/ ReadProps
    \/ ReadFrameZeroStride
    \/ ReadEnd
    \/ Release
    \/ Aggregate

SpecConfig == InitConfig /\ [][NextConfig]_vars

\* ------------------------------------------------------------------ claims
Max(a, b) == IF a >= b THEN a ELSE b
CeilDiv(a, b) == (a + b - 1) \div b
Exited == pc \in {"returned", "raised"}
AnalyzerErrors ==
    {"DecodeError", "HistogramError", "OpticalFlowError", "OcrError",
     "DetectionError"}

\* C1: whenever extract_features has returned or raised after constructing
\* the cv2.VideoCapture, the capture has been released -- also when
\* isOpened() was false.
C1_ReleasedOnEveryExit ==
    (Exited /\ cap # "none") => cap = "released"

\* C2: once an analyzer or the decoder has raised, no frame is read and no
\* counter moves again, control only goes through the finally clause to the
\* raise, the error is the one that was raised, and no report is built or
\* sent.
C2_FaultAborts ==
    [][error' \in AnalyzerErrors =>
         /\ pc' \in {"finally", "raised"}
         /\ report' = NoReport
         /\ response'.body = NoReport
         /\ error # NoError => (error' = error /\ UNCHANGED loopVars)]_vars
C2_Witness ==
    /\ pc = "raised"
    /\ error = "OcrError"
    /\ processed_frames = 2
    /\ absolute_frame_index + 1 < MaxFrames
    /\ cap = "released"

\* C3: /extract answers NotFound (FileNotFoundError) and Unreadable
\* (ValueError) with a 4xx status and every other failure of the analysis
\* with a 5xx status and the fixed message.
C3_ErrorClasses ==
    (caller = "http" /\ rpc = "done" /\ temp_path # "" /\ error # NoError) =>
        IF error \in {"FileNotFoundError", "ValueError"}
        THEN response.status \in 400..499
        ELSE /\ response.status \in 500..599
             /\ response.detail = "Video processing failed."

\* C4: the accepted frames are exactly those whose absolute index is a
\* multiple of frame_stride, and a report whose frames_total is the number
\* of frames decoded has 0 <= frames_processed <= frames_total and
\* frames_processed = ceil(frames_total / frame_stride).
C4_StridePolicy ==
    /\ pc \notin {"idle", "call", "open", "props"} =>
         /\ accepted = {i \in 0..absolute_frame_index :
                           i % config.frame_stride = 0}
         /\ processed_frames = Cardinality(accepted)
    /\ (report.present /\ report.frames_total = absolute_frame_index + 1) =>
         /\ 0 <= report.frames_processed
         /\ report.frames_processed <= report.frames_total
         /\ report.frames_processed =
                CeilDiv(report.frames_total, config.frame_stride)
C4_Witness ==
    /\ report.present
    /\ report.frames_total = absolute_frame_index + 1
    /\ report.frames_total = 3
    /\ config.frame_stride = 2
    /\ report.frames_processed = 2

\* C5 as stated: every report has hard_cuts <= frames_processed - 1, also
\* for a video from which no frame is decoded.
C5_Original ==
    report.present => report.hard_cuts <= report.frames_processed - 1
\* C5 amended: every report has hard_cuts <= max(0, frames_processed - 1).
C5_HardCutsBound ==
    report.present =>
        report.hard_cuts <= Max(0, report.frames_processed - 1)
C5_Witness ==
    /\ report.present
    /\ report.frames_processed = 3
    /\ report.hard_cuts = 2

\* C6: in every report person_to_object_ratio is present iff
\* object_detections > 0, it is then people_detections / object_detections,
\* and building the report never raises ZeroDivisionError.
C6_PersonObjectRatio ==
    /\ error # "ZeroDivisionError"
    /\ pc = "aggregate" => error = NoError
    /\ report.present =>
         /\ report.person_to_object_ratio.present
                <=> report.object_detections > 0
         /\ report.person_to_object_ratio.present =>
              /\ report.person_to_object_ratio.num = report.people_detections
              /\ report.person_to_object_ratio.den = report.object_detections
C6_Witness ==
    /\ report.present
    /\ report.people_detections = 1
    /\ report.object_detections = 2
    /\ report.person_to_object_ratio = Div(1, 2)

\* C7: 0 <= text_positives <= text_samples in every state, and every report
\* has 0 <= text_present_ratio <= 1, equal to text_positives / text_samples
\* when a text sample was taken and to 0.0 otherwise.
C7_TextRatio ==
    /\ 0 <= text_positives
    /\ text_positives <= text_samples
    /\ report.present =>
         LET r == report.text_present_ratio IN
           /\ r.present
           /\ r.den > 0
           /\ 0 <= r.num
           /\ r.num <= r.den
           /\ IF text_samples > 0
              THEN r.num = text_positives /\ r.den = text_samples
              ELSE r = Zero
C7_Witness ==
    /\ report.present
    /\ text_samples = 2
    /\ text_positives = 1
    /\ report.text_present_ratio = Div(1, 2)

SingleFrameReport ==
    (report.present /\ report.frames_processed = 1) =>
        /\ report.avg_motion_magnitude = Zero
        /\ report.hard_cuts = 0
\* C8 as stated: motion_samples = max(0, processed_frames - 1) in every
\* state, and a report with one accepted frame has avg_motion_magnitude 0.0
\* and hard_cuts 0.
C8_Original ==
    /\ motion_samples = Max(0, processed_frames - 1)
    /\ SingleFrameReport
\* C8 amended: motion_samples = max(0, processed_frames - 1) whenever the
\* loop is about to read a frame, after the motion step of an accepted frame
\* and in the report; between the acceptance of a frame and its motion step
\* motion_samples = max(0, processed_frames - 2); a report with one accepted
\* frame has avg_motion_magnitude 0.0 and hard_cuts 0.
C8_MotionSamples ==
    /\ pc \in {"read", "text", "detect", "aggregate", "returned"} =>
         motion_samples = Max(0, processed_frames - 1)
    /\ pc \in {"hist", "flow"} =>
         motion_samples = Max(0, processed_frames - 2)
    /\ report.present => motion_samples = Max(0, report.frames_processed - 1)
    /\ SingleFrameReport
C8_Witness ==
    /\ report.present
    /\ report.frames_processed = 1
    /\ absolute_frame_index = 2
    /\ motion_samples = 0

ChunkRead ==
    /\ rpc = "stream"
    /\ \/ tmp'.size # tmp.size
       \/ response'.status \in {413, 429, 507}
\* C10: the temp file never holds more than max_upload_bytes; a chunk that
\* would take the upload over max_upload_bytes is answered with 413 and is
\* not written.
C10_UploadCap ==
    [][/\ tmp'.size <= app_cfg.max_upload_bytes
       /\ (ChunkRead /\ quota.written + chunk' > app_cfg.max_upload_bytes) =>
            /\ response'.status = 413
            /\ tmp'.size = tmp.size
       /\ (ChunkRead /\ tmp'.size # tmp.size) =>
            /\ tmp'.size = tmp.size + chunk'
            /\ quota.written + chunk' <= app_cfg.max_upload_bytes]_vars
C10_Witness ==
    /\ rpc = "done"
    /\ response.status = 413
    /\ tmp.size = app_cfg.max_upload_bytes - 1
    /\ chunk = 2

\* C11: with any number of uploads interleaved at their chunk reads, the
\* bytes held in temp_volume_dir never exceed volume_quota_bytes.
C11_VolumeQuotaHeld ==
    _dir_size_bytes <= app_cfg.volume_quota_bytes

C13_StridesPositive ==
    [][/\ pc' \in {"read", "hist", "flow", "text", "detect"} =>
            /\ config'.frame_stride >= 1
            /\ config'.text_sample_stride >= 1
            /\ config'.yolo_frame_stride >= 1
       /\ config # NoConfig => config' = config]_vars

\* C14: on an accepted frame the text analyzer fires iff
\* processed mod text_sample_stride = 0, processed being the count of
\* accepted frames; a firing adds exactly one to text_samples, so between
\* frames and at the report text_samples = processed div text_sample_stride.
C14_TextSampling ==
    [][/\ (pc = "text" /\ pc' \in {"detect", "finally"}) =>
            IF processed_frames % config.text_sample_stride = 0
            THEN text_samples' = text_samples + 1
            ELSE /\ text_samples' = text_samples
                 /\ text_positives' = text_positives
                 /\ pc' = "detect"
       /\ pc' \in {"read", "aggregate", "returned"} =>
            text_samples' = processed_frames' \div config'.text_sample_stride
       /\ text_positives' <= text_samples']_vars
C14_Witness ==
    /\ pc = "detect"
    /\ config.frame_stride = 1
    /\ config.text_sample_stride = 2
    /\ processed_frames = 2
    /\ absolute_frame_index = 1
    /\ text_samples = 1

\* C15: on an accepted frame the detector is invoked iff
\* processed mod yolo_frame_stride = 0; every detection returned adds one
\* to person_total (label "person") or to object_total (any other label,
\* an unknown class id included), so person_total + object_total is the
\* number of detections returned so far, and a result without boxes or
\* without a class array adds nothing and raises nothing.
C15_DetectionCounts ==
    [][/\ (pc = "detect" /\ pc' = "finally") =>
            processed_frames % config.yolo_frame_stride = 0
       /\ (pc = "detect" /\ pc' = "read") =>
            /\ error' = NoError
            /\ person_total' >= person_total
            /\ object_total' >= object_total
            /\ processed_frames % config.yolo_frame_stride # 0 =>
                 UNCHANGED <<person_total, object_total, detections>>
       /\ person_total' + object_total' = detections'
       /\ report'.present =>
            /\ report'.people_detections = person_total'
            /\ report'.object_detections = object_total'
            /\ report'.people_detections + report'.object_detections
                   = detections']_vars
C15_Witness ==
    /\ report.present
    /\ config.yolo_frame_stride = 2
    /\ processed_frames = 3
    /\ detections = 2
    /\ report.people_detections = 1
    /\ report.object_detections = 1

\* C16: for each accepted frame the analyzers run in the order shot,
\* motion, text, detection on the resized frame, each touching only its own
\* running state, and the next frame is read only after the detection stage;
\* a frame that is not accepted reaches no analyzer and changes nothing but
\* the absolute frame index.
C16_AnalyzerOrder ==
    [][/\ pc = "hist" => pc' \in {"flow", "finally"}
       /\ pc = "flow" => pc' \in {"text", "finally"}
       /\ pc = "text" => pc' \in {"detect", "finally"}
       /\ pc = "detect" => pc' \in {"read", "finally"}
       /\ pc' = "hist" =>
            /\ pc = "read"
            /\ absolute_frame_index' = absolute_frame_index + 1
            /\ absolute_frame_index' % config.frame_stride = 0
            /\ frame_small_w' # None
            /\ frame_small_w' <= config.resize_width
       /\ pc' \in {"flow", "text", "detect"} =>
            UNCHANGED <<absolute_frame_index, processed_frames,
                        frame_small_w>>
       /\ pc' = "flow" => pc = "hist"
       /\ pc' = "text" => pc = "flow"
       /\ pc' = "detect" => pc = "text"
       /\ pc = "hist" =>
            UNCHANGED <<motion_samples, motion_magnitude_sum, prev_gray,
                        text_samples, text_positives, person_total,
                        object_total>>
       /\ pc = "flow" =>
            UNCHANGED <<hard_cuts, prev_hist, text_samples, text_positives,
                        person_total, object_total>>
       /\ pc = "text" =>
            UNCHANGED <<hard_cuts, prev_hist, motion_samples,
                        motion_magnitude_sum, prev_gray, person_total,
                        object_total>>
       /\ pc = "detect" =>
            UNCHANGED <<hard_cuts, prev_hist, motion_samples,
                        motion_magnitude_sum, prev_gray, text_samples,
                        text_positives>>
       /\ absolute_frame_index' # absolute_frame_index =>
            pc \in {"props", "read"}
       /\ (/\ pc = "read"
           /\ absolute_frame_index' # absolute_frame_index
           /\ absolute_frame_index' % config.frame_stride # 0) =>
            /\ pc' = "read"
            /\ UNCHANGED <<processed_frames, hard_cuts, text_samples,
                           text_positives, motion_samples,
                           motion_magnitude_sum, person_total, object_total,
                           prev_hist, prev_gray, frame_small_w, error>>]_vars
C16_Witness ==
    /\ pc = "detect"
    /\ config.frame_stride = 2
    /\ absolute_frame_index = 2
    /\ processed_frames = 2
    /\ prev_hist = _hsv_histogram(2)
    /\ prev_gray = GrayOf(2)
    /\ motion_samples = 1
    /\ frame_small_w = config.resize_width

\* The pairs of consecutive accepted frames of the film, the later one at
\* index <= last, whose distance is strictly greater than shot_threshold.
CutPairs(last) ==
    {i \in 0..last :
        /\ i % config.frame_stride = 0
        /\ i + config.frame_stride <= last
        /\ KindDistance(KindOf(i), KindOf(i + config.frame_stride))
               > config.shot_threshold}
\* C17: the shot detector compares an accepted frame only with the accepted
\* frame before it: after the shot stage the stored histogram is the one of
\* the current frame, cut or no cut, and hard_cuts is the number of
\* consecutive accepted pairs whose distance is strictly greater than
\* shot_threshold, during the loop and in the report.
C17_ShotDetector ==
    /\ pc = "hist" => hard_cuts = Cardinality(CutPairs(absolute_frame_index - 1))
    /\ pc \in {"flow", "text", "detect"} =>
         /\ prev_hist = _hsv_histogram(absolute_frame_index)
         /\ hard_cuts = Cardinality(CutPairs(absolute_frame_index))
    /\ pc \in {"read", "aggregate", "returned"} =>
         /\ hard_cuts = Cardinality(CutPairs(absolute_frame_index))
         /\ processed_frames > 0 =>
              /\ prev_hist % config.frame_stride = 0
              /\ prev_hist <= absolute_frame_index
              /\ absolute_frame_index < prev_hist + config.frame_stride
    /\ report.present =>
         report.hard_cuts = Cardinality(CutPairs(Len(film.frames) - 1))
C17_Witness ==
    /\ report.present
    /\ config.frame_stride = 1
    /\ film.frames = <<0, 2, 1>>
    /\ KindDistance(2, 1) = config.shot_threshold
    /\ prev_hist = _hsv_histogram(2)
    /\ report.hard_cuts = 1

\* C18: on a film of finitely many frames followed by end-of-stream, with
\* strides >= 1, every read takes the frame right after the one read before
\* (each frame once, none again), a normal exit of the loop has read the
\* whole film, and every invocation eventually returns a report or raises.
C18_Terminates ==
    /\ [][/\ (pc = "read" /\ absolute_frame_index' # absolute_frame_index) =>
               /\ absolute_frame_index' = absolute_frame_index + 1
               /\ absolute_frame_index' < Len(film.frames)
               /\ absolute_frame_index' \notin accepted
          /\ (pc = "read" /\ pc' = "finally" /\ error' = NoError) =>
               absolute_frame_index + 1 = Len(film.frames)
          /\ pc' = "returned" =>
               report'.frames_total = Len(film.frames)]_vars
    /\ (pc = "call") ~> (pc \in {"returned", "raised"})
C18_Witness ==
    /\ pc = "returned"
    /\ run = 2
    /\ Len(film.frames) = MaxFrames
    /\ absolute_frame_index = MaxFrames - 1
    /\ config.frame_stride = 2
    /\ accepted = {0, 2}

\* C19: every running counter of an invocation (processed_frames,
\* hard_cuts, motion_samples, text_samples, text_positives, person_total,
\* object_total) is 0 when the loop starts and never decreases on a step of
\* the loop or of the exit path, so the report is built from counters that
\* were never reset.
C19_CountersMonotone ==
    [][/\ (pc = "props" /\ pc' = "read") =>
            /\ processed_frames' = 0
            /\ hard_cuts' = 0
            /\ motion_samples' = 0
            /\ text_samples' = 0
            /\ text_positives' = 0
            /\ person_total' = 0
            /\ object_total' = 0
       /\ pc \in {"read", "hist", "flow", "text", "detect", "finally",
                  "aggregate"} =>
            /\ processed_frames' >= processed_frames
            /\ hard_cuts' >= hard_cuts
            /\ motion_samples' >= motion_samples
            /\ text_samples' >= text_samples
            /\ text_positives' >= text_positives
            /\ person_total' >= person_total
            /\ object_total' >= object_total
       /\ (pc = "aggregate" /\ pc' = "returned") =>
            /\ report'.frames_processed = processed_frames
            /\ report'.hard_cuts = hard_cuts
            /\ report'.people_detections = person_total
            /\ report'.object_detections = object_total]_vars
C19_Witness ==
    /\ pc = "returned"
    /\ processed_frames = 3
    /\ hard_cuts = 2
    /\ motion_samples = 2
    /\ text_samples = 3
    /\ text_positives = 2
    /\ person_total = 2
    /\ object_total = 2

\* C20: when a request to /extract has completed, the temp file that
\* _stream_upload_to_tempfile created for it no longer exists, also when the
\* request was refused while streaming (413, 429, 507, 400 for an empty
\* upload) or the upload could not be read.
C20_TempFileGone ==
    (caller = "http" /\ rpc = "done" /\ tmp.created) => ~tmp.exists

====
